---- MODULE Spec2Model ----
(***************************************************************************)
(* Model of car_sales_dashboard.py: a Streamlit script that is re-run from *)
(* top to bottom on every widget interaction.  The state is the CSV file   *)
(* on disk, the st.cache_data cache of load_data, the widget selections    *)
(* kept by the session, and what the last run put on the page.             *)
(*                                                                         *)
(* A CSV file is text: a header of column names and rows of text fields.   *)
(* pd.read_csv turns each column of text into typed cells by inference,    *)
(* and DataFrame.to_csv turns typed cells back into text.                  *)
(***************************************************************************)
EXTENDS Integers, Sequences, FiniteSets, TLC

(***************************************************************************)
(* Bounds of the model.                                                    *)
(***************************************************************************)
MaxRows == 2          \* rows of the exhaustively enumerated two-column files
MaxNum == 30          \* largest number that is written as a numeral
Extra == 1            \* how many categories beyond the chart limits occur
MaxNumCols == 5       \* numeric columns of the many-column files
MaxReads == 2         \* reads of the file that are counted

(***************************************************************************)
(* Values.  Every cell of a DataFrame is a record of one shape, so that    *)
(* cells of different Python types can be compared: k is the Python type,  *)
(* n the number (or 0/1 of a bool), s the text of a str.                   *)
(***************************************************************************)
IntCell(v) == [k |-> "int", n |-> v, s |-> ""]
FloatCell(v) == [k |-> "float", n |-> v, s |-> ""]
StrCell(t) == [k |-> "str", n |-> 0, s |-> t]
BoolCell(b) == [k |-> "bool", n |-> IF b THEN 1 ELSE 0, s |-> ""]
NaN == [k |-> "nan", n |-> 0, s |-> ""]

isna(c) == c.k = "nan"

\* Python's == on two cells: numbers compare by value across int, float and
\* bool; str only equals str; NaN equals nothing, itself included.
PyEq(a, b) ==
    /\ ~isna(a)
    /\ ~isna(b)
    /\ IF a.k = "str" \/ b.k = "str"
       THEN a.k = b.k /\ a.s = b.s
       ELSE a.n = b.n

(***************************************************************************)
(* Numerals.                                                               *)
(***************************************************************************)
Digit == <<"0", "1", "2", "3", "4", "5", "6", "7", "8", "9">>

RECURSIVE IntStr(_)
IntStr(v) == IF v < 10 THEN Digit[v + 1]
             ELSE IntStr(v \div 10) \o Digit[(v % 10) + 1]

FloatStr(v) == IntStr(v) \o ".0"

\* the numerals of the model and the number each one denotes
IntTexts == {IntStr(v) : v \in 0..MaxNum}
FloatTexts == {FloatStr(v) : v \in 0..MaxNum}

NumValueOf ==
    [t \in IntTexts \cup FloatTexts |->
        CHOOSE v \in 0..MaxNum : IntStr(v) = t \/ FloatStr(v) = t]

IsIntText(t) == t \in IntTexts
IsFloatText(t) == t \in FloatTexts
IsNumText(t) == IsIntText(t) \/ IsFloatText(t)
NumValue(t) == NumValueOf[t]

\* the texts read_csv takes for a missing value, for True and for False
NaTexts == {"", "NA", "N/A", "NaN", "nan", "null", "NULL", "#N/A", "<NA>", "n/a", "None"}
TrueTexts == {"True", "TRUE", "true"}
FalseTexts == {"False", "FALSE", "false"}
IsNaText(t) == t \in NaTexts
IsBoolText(t) == t \in TrueTexts \cup FalseTexts

(***************************************************************************)
(* Sequence helpers.                                                       *)
(***************************************************************************)
Range(q) == {q[i] : i \in 1..Len(q)}

Min(a, b) == IF a < b THEN a ELSE b

Take(q, m) == SubSeq(q, 1, Min(m, Len(q)))

\* a sequence given by a rule, computed once into its list of elements
Materialize(q) == q \o <<>>

IndexOf(q, e) == CHOOSE i \in 1..Len(q) : q[i] = e

\* the first occurrence of each element, in order of appearance
RECURSIVE Unique(_)
Unique(q) ==
    IF q = <<>> THEN <<>>
    ELSE LET r == Unique(SubSeq(q, 1, Len(q) - 1))
             e == q[Len(q)]
         IN IF \E j \in 1..Len(r) : r[j] = e THEN r ELSE Append(r, e)

\* stable insertion sort: Before(a, b) says a must come strictly before b;
\* an element is put behind every element it does not precede
InsertSorted(r, e, Before(_, _)) ==
    LET m == Cardinality({j \in 1..Len(r) : ~Before(e, r[j])})
    IN SubSeq(r, 1, m) \o <<e>> \o SubSeq(r, m + 1, Len(r))

SortBy(q, Before(_, _)) ==
    LET upto[k \in 0..Len(q)] ==
            IF k = 0 THEN <<>> ELSE InsertSorted(upto[k - 1], q[k], Before)
    IN upto[Len(q)]

(***************************************************************************)
(* pd.read_csv: type inference of one column of text fields.               *)
(***************************************************************************)
InferDtype(fields) ==
    LET present == {i \in 1..Len(fields) : ~IsNaText(fields[i])} IN
    IF Len(fields) = 0 THEN "object"
    ELSE IF \A i \in 1..Len(fields) : IsIntText(fields[i]) THEN "int64"
    ELSE IF \A i \in present : IsNumText(fields[i]) THEN "float64"
    ELSE IF \A i \in 1..Len(fields) : IsBoolText(fields[i]) THEN "bool"
    ELSE "object"

ParseField(t, dtype, allBool) ==
    IF IsNaText(t) THEN NaN
    ELSE IF dtype = "int64" THEN IntCell(NumValue(t))
    ELSE IF dtype = "float64" THEN FloatCell(NumValue(t))
    ELSE IF dtype = "bool" \/ allBool THEN BoolCell(t \in TrueTexts)
    ELSE StrCell(t)

\* a column of text that is only True/False and blanks becomes an object
\* column of bools and NaN; any other object column keeps its text
ParseColumn(fields) ==
    LET dtype == InferDtype(fields)
        allBool == \A i \in 1..Len(fields) :
                       IsNaText(fields[i]) \/ IsBoolText(fields[i])
    IN [i \in 1..Len(fields) |-> ParseField(fields[i], dtype, allBool)]

Column(text, j) == [i \in 1..Len(text.rows) |-> text.rows[i][j]]

\* A file without a header line cannot be parsed (EmptyDataError).
Malformed(text) == Len(text.header) = 0

read_csv(text) ==
    LET cols == [j \in 1..Len(text.header) |-> ParseColumn(Column(text, j))]
    IN [columns |-> text.header,
        dtypes |-> [j \in 1..Len(text.header) |-> InferDtype(Column(text, j))],
        rows |-> [i \in 1..Len(text.rows) |->
                     [j \in 1..Len(text.header) |-> cols[j][i]]]]

(***************************************************************************)
(* Python's ordering of values, used by sorted() and by groupby.  Text is  *)
(* ordered by code point: digits, then upper case, then lower case.        *)
(***************************************************************************)
CatName(j) == "m" \o (IF j < 10 THEN "0" ELSE "") \o IntStr(j)

CodePointOrder ==
    <<"1", "2.0", "All", "Camry", "Civic", "Honda", "Toyota", "True">>
        \o [j \in 1..MaxNum |-> CatName(j)]

StrKeyOf == [t \in Range(CodePointOrder) |-> IndexOf(CodePointOrder, t)]

StrKey(t) == StrKeyOf[t]

PyLess(a, b) == IF a.k = "str" /\ b.k = "str" THEN StrKey(a.s) < StrKey(b.s)
                ELSE a.n < b.n

sorted(q) == SortBy(q, PyLess)

(***************************************************************************)
(* DataFrame operations used by the script.                                *)
(***************************************************************************)
ColIdx(d, c) == IndexOf(d.columns, c)

\* d[c]: the cells of column c, one per row
Col(d, c) == LET j == ColIdx(d, c)
             IN Materialize([i \in 1..Len(d.rows) |-> d.rows[i][j]])

dropna(q) == SelectSeq(q, LAMBDA c : ~isna(c))

\* d.select_dtypes(include=kinds).columns.tolist()
select_dtypes(d, kinds) ==
    LET keep == {j \in 1..Len(d.columns) : d.dtypes[j] \in kinds}
        RECURSIVE upto(_)
        upto(j) == IF j = 0 THEN <<>>
                   ELSE IF j \in keep THEN Append(upto(j - 1), d.columns[j])
                   ELSE upto(j - 1)
    IN upto(Len(d.columns))

NumericCols(d) == select_dtypes(d, {"int64", "float64"})
CategoricalCols(d) == select_dtypes(d, {"object"})

All == StrCell("All")

\* the options without .dropna(): a missing value becomes an option
UniqueValsWithNaN(d, c) == <<All>> \o sorted(Unique(Col(d, c)))

\* ["All"] + sorted(df[main_cat_col].dropna().unique().tolist())
UniqueVals(d, c) == <<All>> \o sorted(Unique(dropna(Col(d, c))))

\* a mask that also lets through the rows whose cell is missing
FilterRowsOrNull(d, c, v) ==
    LET j == ColIdx(d, c)
    IN [d EXCEPT !.rows =
           SelectSeq(d.rows, LAMBDA r : PyEq(r[j], v) \/ isna(r[j]))]

\* df[df[main_cat_col] == selected_cat]
FilterRows(d, c, v) ==
    LET j == ColIdx(d, c)
    IN [d EXCEPT !.rows = SelectSeq(d.rows, LAMBDA r : PyEq(r[j], v))]

\* Series.mean(): the mean of the cells that are not NaN, kept as the exact
\* fraction sum/cnt; cnt = 0 is the NaN that pandas returns for no values
SumCells(q) ==
    LET upto[k \in 0..Len(q)] == IF k = 0 THEN 0 ELSE upto[k - 1] + q[k].n
    IN upto[Len(q)]

Mean(q) == LET present == dropna(q)
           IN [sum |-> SumCells(present), cnt |-> Len(present)]

MeanIsNaN(m) == m.cnt = 0
MeanGreater(a, b) == a.sum * b.cnt > b.sum * a.cnt

(***************************************************************************)
(* f"{x:,.2f}": two decimals, rounded to nearest with ties to even, and    *)
(* the integer part grouped in thousands.                                  *)
(***************************************************************************)
RoundCents(m) ==
    LET q == (100 * m.sum) \div m.cnt
        r == (100 * m.sum) % m.cnt
    IN IF 2 * r > m.cnt THEN q + 1
       ELSE IF 2 * r = m.cnt THEN q + (q % 2)
       ELSE q

RECURSIVE Grouped(_)
Grouped(v) ==
    IF v < 1000 THEN IntStr(v)
    ELSE Grouped(v \div 1000) \o "," \o Digit[((v \div 100) % 10) + 1]
             \o Digit[((v \div 10) % 10) + 1] \o Digit[(v % 10) + 1]

Format2f(m) ==
    IF MeanIsNaN(m) THEN "nan"
    ELSE LET c == RoundCents(m)
         IN Grouped(c \div 100) \o "." \o Digit[((c \div 10) % 10) + 1]
                \o Digit[(c % 10) + 1]

(***************************************************************************)
(* The sections of the script.                                             *)
(***************************************************************************)
KpiTop == 4
BarTop == 15
PieTop == 10

\* the loop without the [:4] slice
KpiAll(d, numeric) ==
    [i \in 1..Len(numeric) |->
        LET m == Mean(Col(d, numeric[i]))
        IN [label |-> numeric[i], mean |-> m, value |-> Format2f(m)]]

\* for i, col in enumerate(numeric_cols[:4]): cols[i].metric(col, mean)
Kpi(d, numeric) ==
    [i \in 1..Min(KpiTop, Len(numeric)) |->
        LET m == Mean(Col(d, numeric[i]))
        IN [label |-> numeric[i], mean |-> m, value |-> Format2f(m)]]

\* df.groupby(x_col)[y_col].mean(): one entry per value of x_col that is
\* not NaN, in sorted order of the values
GroupMean(d, x, y) ==
    LET keys == sorted(Unique(dropna(Col(d, x))))
        group(key) == FilterRows(d, x, key)
    IN Materialize([i \in 1..Len(keys) |->
           [name |-> keys[i], mean |-> Mean(Col(group(keys[i]), y))]])

\* sort_values() with its default ascending=True
MeanBeforeAscending(a, b) ==
    \/ ~MeanIsNaN(a.mean) /\ MeanIsNaN(b.mean)
    \/ /\ ~MeanIsNaN(a.mean)
       /\ ~MeanIsNaN(b.mean)
       /\ MeanGreater(b.mean, a.mean)

\* sort_values(ascending=False): larger means first, NaN last, ties in the
\* order they had
MeanBefore(a, b) ==
    \/ ~MeanIsNaN(a.mean) /\ MeanIsNaN(b.mean)
    \/ /\ ~MeanIsNaN(a.mean)
       /\ ~MeanIsNaN(b.mean)
       /\ MeanGreater(a.mean, b.mean)

BarData(d, x, y) == Take(SortBy(GroupMean(d, x, y), MeanBefore), BarTop)

\* df[pie_col].value_counts(): how often each value that is not NaN occurs,
\* most frequent first, ties in order of first appearance
CountBefore(a, b) == a.count > b.count

ValueCounts(q) ==
    LET vals == Unique(dropna(q))
    IN SortBy(Materialize([i \in 1..Len(vals) |->
                  [name |-> vals[i],
                   count |-> Len(SelectSeq(q, LAMBDA c : PyEq(c, vals[i])))]]),
              CountBefore)

\* the pie cut at the bar chart's limit
PieDataHead15(d, c) == Take(ValueCounts(Col(d, c)), BarTop)

PieData(d, c) == Take(ValueCounts(Col(d, c)), PieTop)

\* px.scatter(df, x, y, color): one point per row
ScatterData(d, x, y, color) ==
    [i \in 1..Len(d.rows) |->
        [x |-> d.rows[i][ColIdx(d, x)],
         y |-> d.rows[i][ColIdx(d, y)],
         color |-> IF color = "" THEN NaN ELSE d.rows[i][ColIdx(d, color)],
         hover |-> d.rows[i]]]

\* df.to_csv(index=False): the header and one line of text fields per row
CellText(c) ==
    IF isna(c) THEN ""
    ELSE IF c.k = "int" THEN IntStr(c.n)
    ELSE IF c.k = "float" THEN FloatStr(c.n)
    ELSE IF c.k = "bool" THEN (IF c.n = 1 THEN "True" ELSE "False")
    ELSE c.s

\* df.to_csv() with its default index=True: a leading column of row numbers
to_csv_index(d) ==
    [header |-> <<"">> \o d.columns,
     rows |-> [i \in 1..Len(d.rows) |->
                  <<IntStr(i - 1)>>
                      \o [j \in 1..Len(d.columns) |-> CellText(d.rows[i][j])]]]

to_csv(d) ==
    [header |-> d.columns,
     rows |-> [i \in 1..Len(d.rows) |->
                  [j \in 1..Len(d.columns) |-> CellText(d.rows[i][j])]]]

(***************************************************************************)
(* Widgets.  st.selectbox returns the option the session holds for the     *)
(* widget, or the first option when it holds none (a new widget, or one    *)
(* whose label changed).  NoCol is the None of the colour selector and the *)
(* value of a column widget that is not on the page; NaN is the value of   *)
(* the filter widget when it is not on the page.                           *)
(***************************************************************************)
NoCol == ""

selectbox(options, held) ==
    IF options = <<>> THEN NoCol
    ELSE IF held \in Range(options) THEN held
    ELSE options[1]

NoWidgets ==
    [main_cat_col |-> NoCol, filter_label |-> NoCol, selected_cat |-> NaN,
     x_col |-> NoCol, y_col |-> NoCol, scatter_x |-> NoCol,
     scatter_y |-> NoCol, color_col |-> NoCol, hist_col |-> NoCol,
     pie_col |-> NoCol]

NoFrame == [columns |-> <<>>, dtypes |-> <<>>, rows |-> <<>>]
NoText == [header |-> <<>>, rows |-> <<>>]

\* the page of a run that has not rendered anything
BlankPage(st) ==
    [status |-> st, numeric_cols |-> <<>>, categorical_cols |-> <<>>,
     unique_vals |-> <<>>, shown |-> {}, df |-> NoFrame, kpi |-> <<>>,
     bar_data |-> <<>>, scatter_data |-> <<>>, hist_data |-> <<>>,
     pie_data |-> <<>>, csv |-> NoText]

\* the existence checks that guard the panels
FilterShown(categorical) == Len(categorical) > 0
\* the bar chart guarded by the categorical columns only
BarShownAnyNumeric(categorical, numeric) == Len(categorical) > 0

BarShown(categorical, numeric) == Len(categorical) > 0 /\ Len(numeric) > 0
ScatterShown(numeric) == Len(numeric) >= 2
HistShown(numeric) == Len(numeric) > 0
PieShown(categorical) == Len(categorical) > 0

\* the selection computed but not assigned back to df
Unfiltered(base, c, v) == base

\* if selected_cat != "All": df = df[df[main_cat_col] == selected_cat]
Filtered(base, c, v) == IF ~PyEq(v, All) THEN FilterRows(base, c, v) ELSE base

(***************************************************************************)
(* One run of the script body (lines 16-114) on the loaded table, with the *)
(* widget values w the session holds.  It yields the widget values of the  *)
(* run and the page it rendered.  A panel that is entered without a column *)
(* to select (df[None], groupby(None)) raises, and the run ends there with *)
(* the panels rendered so far.                                             *)
(***************************************************************************)
Script(base, w) ==
    LET numeric_cols == NumericCols(base)
        categorical_cols == CategoricalCols(base)
        hasCat == FilterShown(categorical_cols)
        hasBar == BarShown(categorical_cols, numeric_cols)
        hasScatter == ScatterShown(numeric_cols)
        hasHist == HistShown(numeric_cols)
        hasPie == PieShown(categorical_cols)
        main_cat_col == IF hasCat THEN selectbox(categorical_cols, w.main_cat_col)
                        ELSE NoCol
        failFilter == hasCat /\ main_cat_col = NoCol
        unique_vals == IF hasCat /\ ~failFilter
                       THEN UniqueVals(base, main_cat_col) ELSE <<>>
        selected_cat ==
            IF hasCat /\ ~failFilter
            THEN selectbox(unique_vals,
                           IF w.filter_label = main_cat_col
                           THEN w.selected_cat ELSE NaN)
            ELSE NaN
        df == IF hasCat /\ ~failFilter
              THEN Filtered(base, main_cat_col, selected_cat)
              ELSE base
        inBar == ~failFilter /\ hasBar
        x_col == IF inBar THEN selectbox(categorical_cols, w.x_col) ELSE NoCol
        y_col == IF inBar THEN selectbox(numeric_cols, w.y_col) ELSE NoCol
        failBar == inBar /\ (x_col = NoCol \/ y_col = NoCol)
        failed3 == failFilter \/ failBar
        inScatter == ~failed3 /\ hasScatter
        scatter_x == IF inScatter THEN selectbox(numeric_cols, w.scatter_x)
                     ELSE NoCol
        scatter_y == IF inScatter THEN selectbox(numeric_cols, w.scatter_y)
                     ELSE NoCol
        color_col == IF inScatter
                     THEN selectbox(<<NoCol>> \o categorical_cols, w.color_col)
                     ELSE NoCol
        inHist == ~failed3 /\ hasHist
        hist_col == IF inHist THEN selectbox(numeric_cols, w.hist_col) ELSE NoCol
        inPie == ~failed3 /\ hasPie
        pie_col == IF inPie THEN selectbox(categorical_cols, w.pie_col)
                   ELSE NoCol
        failPie == inPie /\ pie_col = NoCol
        failed == failed3 \/ failPie
    IN [w |-> [main_cat_col |-> main_cat_col, filter_label |-> main_cat_col,
               selected_cat |-> selected_cat, x_col |-> x_col, y_col |-> y_col,
               scatter_x |-> scatter_x, scatter_y |-> scatter_y,
               color_col |-> color_col, hist_col |-> hist_col,
               pie_col |-> pie_col],
        page |-> [status |-> IF failed THEN "error" ELSE "ok",
                  numeric_cols |-> numeric_cols,
                  categorical_cols |-> categorical_cols,
                  unique_vals |-> unique_vals,
                  shown |-> (IF hasCat /\ ~failFilter THEN {"filter"} ELSE {})
                      \cup (IF ~hasCat THEN {"warning"} ELSE {})
                      \cup (IF ~failFilter THEN {"kpi", "preview"} ELSE {})
                      \cup (IF inBar /\ ~failBar THEN {"bar"} ELSE {})
                      \cup (IF inScatter THEN {"scatter"} ELSE {})
                      \cup (IF inHist THEN {"hist"} ELSE {})
                      \cup (IF inPie /\ ~failPie THEN {"pie"} ELSE {})
                      \cup (IF ~failed THEN {"download"} ELSE {}),
                  df |-> df,
                  kpi |-> IF ~failFilter THEN Kpi(df, numeric_cols) ELSE <<>>,
                  bar_data |-> IF inBar /\ ~failBar
                               THEN BarData(df, x_col, y_col) ELSE <<>>,
                  scatter_data |-> IF inScatter
                                   THEN ScatterData(df, scatter_x, scatter_y, color_col)
                                   ELSE <<>>,
                  hist_data |-> IF inHist THEN Col(df, hist_col) ELSE <<>>,
                  pie_data |-> IF inPie /\ ~failPie
                               THEN PieData(df, pie_col) ELSE <<>>,
                  csv |-> IF ~failed THEN to_csv(df) ELSE NoText]]

(***************************************************************************)
(* The files the model is run on.                                          *)
(***************************************************************************)
Header2 == <<"Manufacturer", "Price">>

\* every file of two columns and at most MaxRows rows over these fields:
\* the first column can come out as text, whole numbers, numbers with gaps
\* or booleans, the second as whole numbers or as numbers with gaps
Fields1 == {"", "Honda", "1", "True"}
Fields2 == {"", "1", "2.0"}

TwoColFiles ==
    {[header |-> Header2, rows |-> r] :
        r \in UNION {[1..m -> {<<a, b>> : a \in Fields1, b \in Fields2}] :
                        m \in 0..MaxRows}}

\* files with more manufacturers than the charts show: k of them, one row
\* each, then a second row for the last three; p picks the prices, rising
\* (p = 1) or with repeated and missing ones (p = 2)
WidePrice(i, p) ==
    IF p = 1 THEN IntStr(i)
    ELSE IF i % 4 = 0 THEN ""
    ELSE IntStr(i % 5)

WideFile(k, p) ==
    [header |-> Header2,
     rows |-> [i \in 1..k |-> <<CatName(i), WidePrice(i, p)>>]
                  \o [i \in 1..3 |-> <<CatName(k + 1 - i), "1">>]]

WideFiles ==
    {WideFile(top + e, p) : top \in {PieTop, BarTop}, e \in 0..Extra, p \in 1..2}

\* files with t text columns and c numeric columns, three rows
PriceName(j) == "Price" \o IntStr(j)

ManyColFile(t, c) ==
    LET text == <<<<"Honda", "Civic">>, <<"Toyota", "Camry">>, <<"Honda", "">>>>
    IN [header |-> SubSeq(<<"Manufacturer", "Model">>, 1, t)
                       \o [j \in 1..c |-> PriceName(j)],
        rows |-> [i \in 1..3 |->
                     SubSeq(text[i], 1, t)
                         \o [j \in 1..c |-> IntStr((i * j + i * i) % 7)]]]

ManyColFiles ==
    {ManyColFile(0, c) : c \in 1..MaxNumCols}
        \cup {ManyColFile(1, c) : c \in 0..2}
        \cup {ManyColFile(2, c) : c \in 0..1}

\* the scenario of the specification, with prices in thousands
ScenarioFile ==
    [header |-> Header2,
     rows |-> <<<<"Honda", "20">>, <<"Honda", "22">>, <<"Toyota", "18">>>>]

Files == TwoColFiles \cup WideFiles \cup ManyColFiles \cup {ScenarioFile}

ColNames == UNION {Range(f.header) : f \in Files}

\* the values a text column of these files can hold, and "All"
CellValues ==
    {StrCell(t) : t \in Range(CodePointOrder)}
        \cup {BoolCell(TRUE), BoolCell(FALSE)}

(***************************************************************************)
(* State.                                                                  *)
(***************************************************************************)
VARIABLES
    exists,     \* whether Car_sales.csv is on disk
    file,       \* its text
    cache,      \* the table st.cache_data holds for load_data, or NoFrame
    reads,      \* how many times read_csv has read the file
    w,          \* the widget values the session holds
    page        \* what the last run rendered

vars == <<exists, file, cache, reads, w, page>>

Init ==
    /\ \/ exists = TRUE /\ file \in Files \cup {NoText}
       \/ exists = FALSE /\ file = NoText
    /\ cache = NoFrame
    /\ reads = 0
    /\ w = NoWidgets
    /\ page = BlankPage("init")

\* load_data without @st.cache_data: every run reads the file
load_data_uncached(cached, onDisk, text) ==
    IF ~onDisk \/ Malformed(text)
    THEN [raised |-> TRUE, df |-> NoFrame, cache |-> cached, read |-> 0]
    ELSE [raised |-> FALSE, df |-> read_csv(text), cache |-> read_csv(text),
          read |-> 1]

(***************************************************************************)
(* @st.cache_data load_data(): the cached table when there is one,         *)
(* otherwise the file is read; a missing or unparsable file raises.        *)
(***************************************************************************)
load_data(cached, onDisk, text) ==
    IF cached # NoFrame
    THEN [raised |-> FALSE, df |-> cached, cache |-> cached, read |-> 0]
    ELSE IF ~onDisk \/ Malformed(text)
    THEN [raised |-> TRUE, df |-> NoFrame, cache |-> cached, read |-> 0]
    ELSE [raised |-> FALSE, df |-> read_csv(text), cache |-> read_csv(text),
          read |-> 1]

\* One run of the whole script with the widget values req.  An exception
\* of load_data at line 14 ends the run before anything is rendered.
Rerun(req) ==
    LET r == load_data(cache, exists, file)
        run == Script(r.df, req)
    IN
    IF r.raised
    THEN /\ page' = BlankPage("load_error")
         /\ w' = NoWidgets
         /\ UNCHANGED <<exists, file, cache, reads>>
    ELSE /\ reads + r.read <= MaxReads
         /\ cache' = r.cache
         /\ reads' = reads + r.read
         /\ w' = run.w
         /\ page' = run.page
         /\ UNCHANGED <<exists, file>>

(***************************************************************************)
(* Actions: the user opens or reloads the page, or changes one widget,     *)
(* and the script runs.                                                    *)
(***************************************************************************)
Visit ==
    /\ page.status \in {"init", "ok", "error", "load_error"}
    /\ Rerun(w)

SelectMainCat(c) ==
    /\ "filter" \in page.shown
    /\ c \in Range(page.categorical_cols)
    /\ c # w.main_cat_col
    /\ Rerun([w EXCEPT !.main_cat_col = c])

SelectFilter(v) ==
    /\ "filter" \in page.shown
    /\ v \in Range(page.unique_vals)
    /\ v # w.selected_cat
    /\ Rerun([w EXCEPT !.selected_cat = v])

SelectBarX(c) ==
    /\ "bar" \in page.shown
    /\ c \in Range(page.categorical_cols)
    /\ c # w.x_col
    /\ Rerun([w EXCEPT !.x_col = c])

SelectBarY(c) ==
    /\ "bar" \in page.shown
    /\ c \in Range(page.numeric_cols)
    /\ c # w.y_col
    /\ Rerun([w EXCEPT !.y_col = c])

SelectScatterX(c) ==
    /\ "scatter" \in page.shown
    /\ c \in Range(page.numeric_cols)
    /\ c # w.scatter_x
    /\ Rerun([w EXCEPT !.scatter_x = c])

SelectScatterY(c) ==
    /\ "scatter" \in page.shown
    /\ c \in Range(page.numeric_cols)
    /\ c # w.scatter_y
    /\ Rerun([w EXCEPT !.scatter_y = c])

SelectColor(c) ==
    /\ "scatter" \in page.shown
    /\ c \in Range(<<NoCol>> \o page.categorical_cols)
    /\ c # w.color_col
    /\ Rerun([w EXCEPT !.color_col = c])

SelectHist(c) ==
    /\ "hist" \in page.shown
    /\ c \in Range(page.numeric_cols)
    /\ c # w.hist_col
    /\ Rerun([w EXCEPT !.hist_col = c])

SelectPie(c) ==
    /\ "pie" \in page.shown
    /\ c \in Range(page.categorical_cols)
    /\ c # w.pie_col
    /\ Rerun([w EXCEPT !.pie_col = c])

\* the environment: the file is put in place while nothing is cached yet,
\* or it is removed
WriteFile(f) ==
    /\ cache = NoFrame
    /\ ~exists
    /\ exists' = TRUE
    /\ file' = f
    /\ UNCHANGED <<cache, reads, w, page>>

RemoveFile ==
    /\ exists
    /\ exists' = FALSE
    /\ file' = NoText
    /\ UNCHANGED <<cache, reads, w, page>>

Next ==
    \/ Visit
    \/ \E c \in ColNames : SelectMainCat(c)
    \/ \E v \in CellValues : SelectFilter(v)
    \/ \E c \in ColNames : SelectBarX(c)
    \/ \E c \in ColNames : SelectBarY(c)
    \/ \E c \in ColNames : SelectScatterX(c)
    \/ \E c \in ColNames : SelectScatterY(c)
    \/ \E c \in ColNames \cup {NoCol} : SelectColor(c)
    \/ \E c \in ColNames : SelectHist(c)
    \/ \E c \in ColNames : SelectPie(c)
    \/ \E f \in Files \cup {NoText} : WriteFile(f)
    \/ RemoveFile

Spec == Init /\ [][Next]_vars

(***************************************************************************)
(* Vocabulary of the properties.  These say what a table, a mean or a      *)
(* count is directly on the rows, without the operators of the script.     *)
(***************************************************************************)
Loaded == page.status = "ok"

FilterOn == Loaded /\ "filter" \in page.shown /\ w.selected_cat # All

\* the rows of table d, by number, whose cell in column c is the value v
RowsWhere(d, c, v) ==
    {i \in 1..Len(d.rows) : d.rows[i][ColIdx(d, c)] = v}

\* the p-th smallest number of a set of row numbers
Nth(I, p) == CHOOSE i \in I : Cardinality({k \in I : k <= i}) = p

\* table d restricted to the rows numbered in I, in their order
Restrict(d, I) ==
    [columns |-> d.columns, dtypes |-> d.dtypes,
     rows |-> [p \in 1..Cardinality(I) |-> d.rows[Nth(I, p)]]]

\* the table the selection of the session stands for
SelectedTable ==
    IF "filter" \in page.shown /\ w.selected_cat # All
    THEN Restrict(cache, RowsWhere(cache, w.main_cat_col, w.selected_cat))
    ELSE cache

\* the values of column c of table d that are not missing
Present(d, c) == {i \in 1..Len(d.rows) : d.rows[i][ColIdx(d, c)] # NaN}

RECURSIVE Total(_, _, _)
Total(d, c, I) ==
    IF I = {} THEN 0
    ELSE LET i == CHOOSE k \in I : TRUE
         IN d.rows[i][ColIdx(d, c)].n + Total(d, c, I \ {i})

\* m is the arithmetic mean of column c over the rows I of table d
IsMeanOf(m, d, c, I) ==
    LET J == I \cap Present(d, c)
    IN m.cnt = Cardinality(J) /\ m.sum = Total(d, c, J)

AllRows(d) == 1..Len(d.rows)

\* fractions a <= b, for means that are numbers
MeanLeq(a, b) == a.sum * b.cnt <= b.sum * a.cnt

DistinctValues(d, c) == {d.rows[i][ColIdx(d, c)] : i \in Present(d, c)}

NumericKinds == {"int64", "float64"}
NumericCount(d) == Cardinality({j \in 1..Len(d.columns) : d.dtypes[j] \in NumericKinds})
TextCount(d) == Cardinality({j \in 1..Len(d.columns) : d.dtypes[j] = "object"})

(***************************************************************************)
(* C1.  The two lists of the column classifier partition the columns of    *)
(* the loaded table: no column is in both, and every column, whatever its  *)
(* storage type, is in one of them.                                        *)
(***************************************************************************)
C1_ClassifierPartitions ==
    Loaded =>
        /\ Range(page.numeric_cols) \cap Range(page.categorical_cols) = {}
        /\ Range(page.numeric_cols) \cup Range(page.categorical_cols)
               = Range(cache.columns)

(***************************************************************************)
(* C2.  The table of a run is the cached table restricted to the rows      *)
(* whose filter column equals the selected value (rows missing that value  *)
(* excluded), with columns and cells unchanged, and the whole cached table *)
(* under "All"; the cached table itself never changes, so "All" after a    *)
(* filter gives the original rows back.  On the scenario table (Honda 20,  *)
(* Honda 22, Toyota 18) the filter Honda leaves 2 rows of mean 21.00.      *)
(***************************************************************************)
C2_TableIsSelection ==
    /\ [](Loaded => page.df = SelectedTable)
    /\ [](Loaded /\ ~FilterOn => Len(page.df.rows) = Len(cache.rows))
    /\ [](Loaded /\ cache = read_csv(ScenarioFile)
              /\ w.selected_cat = StrCell("Honda") =>
                 Len(page.df.rows) = 2 /\ page.kpi[1].value = "21.00")
    /\ [][cache # NoFrame => cache' = cache]_vars

C2_Witness ==
    /\ FilterOn
    /\ Len(page.df.rows) > 0
    /\ Len(page.df.rows) < Len(cache.rows)
    /\ \E i \in AllRows(cache) : cache.rows[i][ColIdx(cache, w.main_cat_col)] = NaN

(***************************************************************************)
(* C3.  Under a filter other than "All", every output of the run (the KPI  *)
(* means, the preview, the data of the bar, scatter, histogram and pie     *)
(* charts, the export) is computed from the filtered table of that run and *)
(* not from the unfiltered table.                                          *)
(***************************************************************************)
C3_OutputsUseFilteredTable ==
    FilterOn =>
        LET T == SelectedTable
            rows == AllRows(T)
        IN /\ page.df = T
           /\ \A i \in 1..Len(page.kpi) :
                  IsMeanOf(page.kpi[i].mean, T, page.kpi[i].label, rows)
           /\ "bar" \in page.shown =>
                  \A i \in 1..Len(page.bar_data) :
                      IsMeanOf(page.bar_data[i].mean, T, w.y_col,
                               RowsWhere(T, w.x_col, page.bar_data[i].name))
           /\ "bar" \in page.shown =>
                  {page.bar_data[i].name : i \in 1..Len(page.bar_data)}
                      \subseteq DistinctValues(T, w.x_col)
           /\ "scatter" \in page.shown =>
                  /\ Len(page.scatter_data) = Len(T.rows)
                  /\ \A i \in rows :
                         /\ page.scatter_data[i].hover = T.rows[i]
                         /\ page.scatter_data[i].x = T.rows[i][ColIdx(T, w.scatter_x)]
                         /\ page.scatter_data[i].y = T.rows[i][ColIdx(T, w.scatter_y)]
           /\ "hist" \in page.shown =>
                  /\ Len(page.hist_data) = Len(T.rows)
                  /\ \A i \in rows :
                         page.hist_data[i] = T.rows[i][ColIdx(T, w.hist_col)]
           /\ "pie" \in page.shown =>
                  \A i \in 1..Len(page.pie_data) :
                      page.pie_data[i].count
                          = Cardinality(RowsWhere(T, w.pie_col, page.pie_data[i].name))
           /\ Len(page.csv.rows) = Len(T.rows)

\* a filter that drops rows, on a page with KPIs, bar, histogram and pie
C3_Witness ==
    /\ FilterOn
    /\ Len(page.df.rows) < Len(cache.rows)
    /\ {"bar", "hist", "pie"} \subseteq page.shown
    /\ Len(page.kpi) > 0
    /\ Len(page.bar_data) > 0
    /\ ~IsMeanOf(page.kpi[1].mean, cache, page.kpi[1].label, AllRows(cache))

(***************************************************************************)
(* C4.  The KPI panel shows min(4, number of numeric columns) metrics, for *)
(* the first numeric columns in detected order, and each value is the      *)
(* arithmetic mean of its column over the table of the current run: the    *)
(* unfiltered mean under "All", the mean of the filtered rows otherwise.   *)
(***************************************************************************)
C4_KpiMeans ==
    Loaded =>
        LET n == NumericCount(cache)
            numeric == {j \in 1..Len(cache.columns) : cache.dtypes[j] \in NumericKinds}
        IN /\ Len(page.kpi) = (IF n < 4 THEN n ELSE 4)
           /\ \A i \in 1..Len(page.kpi) :
                  /\ page.kpi[i].label = cache.columns[Nth(numeric, i)]
                  /\ IsMeanOf(page.kpi[i].mean, SelectedTable, page.kpi[i].label,
                              AllRows(SelectedTable))
                  /\ ~FilterOn =>
                         IsMeanOf(page.kpi[i].mean, cache, page.kpi[i].label,
                                  AllRows(cache))
                  /\ page.kpi[i].value = Format2f(page.kpi[i].mean)

\* four KPIs for a table with more than four numeric columns
C4_Witness ==
    /\ Loaded
    /\ NumericCount(cache) > 4
    /\ Len(page.kpi) = 4
    /\ \A i \in 1..4 : page.kpi[i].mean.cnt > 0

(***************************************************************************)
(* C5.  The bar chart data has at most 15 categories, each with the mean   *)
(* of Y over the filtered rows of that category, in descending order of    *)
(* the mean, and no category left out has a strictly larger mean than one  *)
(* that is shown.                                                          *)
(***************************************************************************)
C5_BarData ==
    Loaded /\ "bar" \in page.shown =>
        LET bar == page.bar_data
            shown == {bar[i].name : i \in 1..Len(bar)}
            left == DistinctValues(page.df, w.x_col) \ shown
            meanOf(name) ==
                [sum |-> Total(page.df, w.y_col,
                               RowsWhere(page.df, w.x_col, name)
                                   \cap Present(page.df, w.y_col)),
                 cnt |-> Cardinality(RowsWhere(page.df, w.x_col, name)
                                         \cap Present(page.df, w.y_col))]
        IN /\ Len(bar) <= 15
           /\ Cardinality(shown) = Len(bar)
           /\ shown \subseteq DistinctValues(page.df, w.x_col)
           /\ Cardinality(DistinctValues(page.df, w.x_col)) <= 15 => left = {}
           /\ \A i \in 1..Len(bar) : bar[i].mean = meanOf(bar[i].name)
           /\ \A i \in 1..(Len(bar) - 1) :
                  \/ bar[i + 1].mean.cnt = 0
                  \/ bar[i].mean.cnt > 0 /\ MeanLeq(bar[i + 1].mean, bar[i].mean)
           /\ \A name \in left : \A i \in 1..Len(bar) :
                  \/ meanOf(name).cnt = 0
                  \/ bar[i].mean.cnt > 0 /\ MeanLeq(meanOf(name), bar[i].mean)

\* more than 15 categories: 15 shown, one left out with a smaller mean
C5_Witness ==
    /\ Loaded
    /\ "bar" \in page.shown
    /\ Cardinality(DistinctValues(page.df, w.x_col)) > 15
    /\ Len(page.bar_data) = 15
    /\ page.bar_data[1].mean.cnt > 0
    /\ page.bar_data[1].mean # page.bar_data[15].mean

(***************************************************************************)
(* C6.  The pie chart data has at most 10 categories, they are the most    *)
(* frequent values of the column in the filtered table, and the counts     *)
(* shown add up to at most the number of values that are not missing, and  *)
(* to exactly that number when the column has 10 or fewer distinct values. *)
(***************************************************************************)
C6_PieData ==
    Loaded /\ "pie" \in page.shown =>
        LET pie == page.pie_data
            shown == {pie[i].name : i \in 1..Len(pie)}
            all == DistinctValues(page.df, w.pie_col)
            count(name) == Cardinality(RowsWhere(page.df, w.pie_col, name))
            sum[k \in 0..Len(pie)] == IF k = 0 THEN 0 ELSE sum[k - 1] + pie[k].count
            present == Cardinality(Present(page.df, w.pie_col))
        IN /\ Len(pie) <= 10
           /\ Cardinality(shown) = Len(pie)
           /\ shown \subseteq all
           /\ \A i \in 1..Len(pie) : pie[i].count = count(pie[i].name)
           /\ \A name \in all \ shown : \A i \in 1..Len(pie) :
                  count(name) <= pie[i].count
           /\ sum[Len(pie)] <= present
           /\ Cardinality(all) <= 10 => sum[Len(pie)] = present

\* more than 10 values: 10 shown, of different frequency, some rows left out
C6_Witness ==
    /\ Loaded
    /\ "pie" \in page.shown
    /\ Cardinality(DistinctValues(page.df, w.pie_col)) > 10
    /\ Len(page.pie_data) = 10
    /\ page.pie_data[1].count > page.pie_data[10].count
    /\ \E name \in DistinctValues(page.df, w.pie_col) :
           \A i \in 1..10 : page.pie_data[i].name # name

(***************************************************************************)
(* C7.  The export has a header row and as many data rows as the filtered  *)
(* table of the run, all of its columns and no index column, and parsing   *)
(* it back gives the same rows and values.                                 *)
(***************************************************************************)
SameValue(a, b) == (isna(a) /\ isna(b)) \/ PyEq(a, b)

ExportShape ==
    /\ page.csv.header = page.df.columns
    /\ Len(page.csv.rows) = Len(page.df.rows)
    /\ \A i \in 1..Len(page.csv.rows) :
           Len(page.csv.rows[i]) = Len(page.df.columns)
    /\ read_csv(page.csv).columns = page.df.columns
    /\ Len(read_csv(page.csv).rows) = Len(page.df.rows)

ColumnComesBack(j) ==
    \A i \in 1..Len(page.df.rows) :
        SameValue(read_csv(page.csv).rows[i][j], page.df.rows[i][j])

\* the statement as claimed: every column comes back with its values
C7_ExportRoundTrips ==
    Loaded =>
        /\ ExportShape
        /\ \A j \in 1..Len(page.df.columns) : ColumnComesBack(j)

\* a text column whose values that are not missing all read as numbers, or
\* all as True/False
ReadsAsOtherType(d, j) ==
    LET cells == {d.rows[i][j] : i \in 1..Len(d.rows)} \ {NaN}
    IN /\ cells # {}
       /\ \/ \A c \in cells : c.k = "str" /\ IsNumText(c.s)
          \/ \A c \in cells : c.k = "str" /\ IsBoolText(c.s)

\* the statement that holds: every column comes back with its values, but
\* for a text column whose retained values all read as numbers or booleans
C7_ExportRoundTripsButRetypedText ==
    Loaded =>
        /\ ExportShape
        /\ \A j \in 1..Len(page.df.columns) :
               ~ReadsAsOtherType(page.df, j) => ColumnComesBack(j)

\* a filtered table with a text column and a gap, exported and read back
C7_Witness ==
    /\ FilterOn
    /\ Len(page.df.rows) > 1
    /\ Len(page.df.rows) < Len(cache.rows)
    /\ \E j \in 1..Len(page.df.columns) :
           /\ page.df.dtypes[j] = "object"
           /\ ~ReadsAsOtherType(page.df, j)
           /\ page.df.rows[1][j] # NaN
    /\ \E j \in 1..Len(page.df.columns) : page.df.rows[2][j] = NaN

(***************************************************************************)
(* C8.  Whatever the numbers of numeric and of text columns, zero          *)
(* included, the run on a loaded table ends without an error, and a chart  *)
(* whose kind of column is absent is left out: bar needs a text and a      *)
(* numeric column, scatter two numeric columns, histogram a numeric        *)
(* column, pie a text column.  Without text columns a warning replaces the *)
(* filter and the table of the run is the loaded table.                    *)
(***************************************************************************)
C8_PanelsGuarded ==
    cache # NoFrame =>
        LET nc == NumericCount(cache)
            tc == TextCount(cache)
        IN /\ page.status = "ok"
           /\ {"kpi", "preview", "download"} \subseteq page.shown
           /\ "bar" \in page.shown <=> (nc > 0 /\ tc > 0)
           /\ "scatter" \in page.shown <=> nc >= 2
           /\ "hist" \in page.shown <=> nc > 0
           /\ "pie" \in page.shown <=> tc > 0
           /\ "filter" \in page.shown <=> tc > 0
           /\ "warning" \in page.shown <=> tc = 0
           /\ tc = 0 => page.df = cache
           /\ "bar" \notin page.shown => page.bar_data = <<>>
           /\ "scatter" \notin page.shown => page.scatter_data = <<>>
           /\ "hist" \notin page.shown => page.hist_data = <<>>
           /\ "pie" \notin page.shown => page.pie_data = <<>>

\* text columns but no numeric column: filter and pie only
C8_Witness ==
    /\ Loaded
    /\ NumericCount(cache) = 0
    /\ TextCount(cache) > 0
    /\ Len(cache.rows) > 0
    /\ page.shown = {"filter", "kpi", "preview", "pie", "download"}

(***************************************************************************)
(* C9.  The file is read at most once: once a table is cached, later runs  *)
(* use it and do not read the file.  A run whose read fails (file missing  *)
(* or unparsable, nothing cached) renders nothing, reads nothing more and  *)
(* caches nothing.                                                         *)
(***************************************************************************)
C9_ReadOnce ==
    /\ [](reads <= 1)
    /\ [](cache # NoFrame <=> reads = 1)
    /\ [](page.status = "load_error" =>
              cache = NoFrame /\ page = BlankPage("load_error"))
    /\ [][cache # NoFrame =>
              cache' = cache /\ reads' = reads /\ page'.status = "ok"]_vars
    /\ [][(/\ cache = NoFrame
           /\ ~exists \/ Malformed(file)
           /\ exists' = exists
           /\ file' = file) =>
              /\ page'.status = "load_error"
              /\ cache' = NoFrame
              /\ reads' = reads]_vars

\* a second run, after the file was removed, on the table read once
C9_Witness ==
    /\ Loaded
    /\ ~exists
    /\ reads = 1
    /\ w.selected_cat \notin {All, NaN}

(***************************************************************************)
(* C10.  The selected filter value is "All" or one of the values, not      *)
(* missing, of the selected filter column in the loaded table, and the     *)
(* options are those values; so a filter on a table with rows never gives  *)
(* a table without rows, and a bar or pie chart over the filter column     *)
(* shows exactly one category under a filter.                              *)
(***************************************************************************)
C10_SelectionIsOption ==
    Loaded /\ "filter" \in page.shown =>
        LET values == DistinctValues(cache, w.main_cat_col)
        IN /\ w.selected_cat \in {All} \cup values
           /\ Range(page.unique_vals) = {All} \cup values
           /\ page.unique_vals[1] = All
           /\ FilterOn /\ Len(cache.rows) > 0 => Len(page.df.rows) > 0
           /\ FilterOn /\ "bar" \in page.shown /\ w.x_col = w.main_cat_col =>
                  Len(page.bar_data) = 1
           /\ FilterOn /\ "pie" \in page.shown /\ w.pie_col = w.main_cat_col =>
                  Len(page.pie_data) = 1

\* a filter on the second text column of a table, charts over that column
C10_Witness ==
    /\ FilterOn
    /\ w.main_cat_col # cache.columns[1]
    /\ Cardinality(DistinctValues(cache, w.main_cat_col)) > 1
    /\ "bar" \in page.shown
    /\ w.x_col = w.main_cat_col
    /\ w.pie_col = w.main_cat_col
    /\ Len(page.bar_data) = 1
    /\ Len(page.pie_data) = 1

====
